---- MODULE Spec2Model ----
(***************************************************************************)
(* SentinelVault: a local, password-protected secret store.                *)
(*                                                                         *)
(* Text (names, values, passwords, duration texts) is a sequence of        *)
(* Unicode code points.  Time is the wall clock in whole seconds.          *)
(* Option<T> is a sequence of length 0 (None) or 1 (Some).                 *)
(* Result<T> is a record [ok, val]: val is the value or the error kind.    *)
(***************************************************************************)
EXTENDS Integers, Sequences, FiniteSets, TLC

(* ------------------------------ bounds --------------------------------- *)

\* the clock runs from 0 to MaxTime seconds
MaxTime == 2


(* --------------------------- Option / Result ---------------------------- *)

None == <<>>

Some(x) == <<x>>

Ok(x) == [ok |-> TRUE, val |-> x]

Err(e) == [ok |-> FALSE, val |-> e]

Unit == "()"

(* ------------------------------- text ----------------------------------- *)

\* the texts "a", "b", "ab", "a/b", "", "x", "y"
S_a == <<97>>

S_b == <<98>>

S_ab == <<97, 98>>

S_slash == <<97, 47, 98>>

S_empty == <<>>

S_x == <<120>>

S_y == <<121>>

\* the text of n times the character c
Repeat(c, n) == [i \in 1..n |-> c]

\* number of bytes of the UTF-8 encoding of one code point
utf8_len(c) == IF c < 128 THEN 1 ELSE IF c < 2048 THEN 2 ELSE IF c < 65536 THEN 3 ELSE 4

\* str::len: the length in bytes (the sum over the characters, by halves)
RECURSIVE str_len(_)
str_len(s) ==
    IF Len(s) = 0 THEN 0
    ELSE IF Len(s) = 1 THEN utf8_len(s[1])
    ELSE LET h == Len(s) \div 2
         IN  str_len(SubSeq(s, 1, h)) + str_len(SubSeq(s, h + 1, Len(s)))

\* char::is_control (general category Cc)
is_control(c) == c \in 0..31 \/ c \in 127..159

\* char::is_alphabetic, on the Latin-1 range
is_alphabetic(c) ==
    \/ c \in 65..90
    \/ c \in 97..122
    \/ c \in {170, 181, 186}
    \/ (c \in 192..255 /\ c \notin {215, 247})

\* char::is_whitespace, on the Latin-1 range
is_whitespace(c) == c \in {9, 10, 11, 12, 13, 32, 133, 160}

is_digit(c) == c \in 48..57

\* char to_uppercase / to_lowercase on the code points whose mapping is one code point
upper_char(c) ==
    IF c \in 97..122 \/ (c \in 224..254 /\ c # 247) THEN c - 32 ELSE c

lower_char(c) ==
    IF c \in 65..90 \/ (c \in 192..222 /\ c # 215) THEN c + 32 ELSE c

to_uppercase(s) == [i \in 1..Len(s) |-> upper_char(s[i])]

to_lowercase(s) == [i \in 1..Len(s) |-> lower_char(s[i])]

\* str::cmp: lexicographic order (a < b)
RECURSIVE str_lt(_, _)
str_lt(a, b) ==
    IF b = <<>> THEN FALSE
    ELSE IF a = <<>> THEN TRUE
    ELSE IF Head(a) # Head(b) THEN Head(a) < Head(b)
    ELSE str_lt(Tail(a), Tail(b))

RECURSIVE trim_start(_)
trim_start(s) ==
    IF s # <<>> /\ is_whitespace(Head(s)) THEN trim_start(Tail(s)) ELSE s

RECURSIVE trim_end(_)
trim_end(s) ==
    IF s # <<>> /\ is_whitespace(s[Len(s)]) THEN trim_end(SubSeq(s, 1, Len(s) - 1)) ELSE s

trim(s) == trim_end(trim_start(s))

(* ------------------------------ utils.rs -------------------------------- *)

MaxNameLen == 255

MaxValueLen == 10000

invalid_chars == {47, 92, 58, 42, 63, 34, 60, 62, 124, 0}

\* ".", "..", "CON", "PRN", "AUX", "NUL"
reserved_names ==
    { <<46>>, <<46, 46>>, <<67, 79, 78>>, <<80, 82, 78>>, <<65, 85, 88>>, <<78, 85, 76>> }

sanitize_secret_name(name) ==
    IF name = <<>> THEN Err("ValidationError")
    ELSE IF str_len(name) > MaxNameLen THEN Err("ValidationError")
    ELSE IF \E i \in 1..Len(name) : name[i] \in invalid_chars \/ is_control(name[i])
         THEN Err("ValidationError")
    ELSE IF to_uppercase(name) \in reserved_names THEN Err("ValidationError")
    ELSE Ok(name)

validate_secret_value(value) ==
    IF value = <<>> THEN Err("ValidationError")
    ELSE IF str_len(value) > MaxValueLen THEN Err("ValidationError")
    ELSE IF \E i \in 1..Len(value) : value[i] = 0 THEN Err("ValidationError")
    ELSE Ok(Unit)

(* ------------------------------ lease.rs -------------------------------- *)

\* variant: a negative duration counts as none
Lease_new_unsigned(duration, now) ==
    [expires_at |-> IF duration < 0 THEN now ELSE now + duration, created_at |-> now]

Lease_new(duration, now) == [expires_at |-> now + duration, created_at |-> now]

\* variant: a lease counts as expired at the instant expires_at
is_expired_inclusive(lease, now) == now >= lease.expires_at

is_expired(lease, now) == now > lease.expires_at

time_remaining(lease, now) ==
    IF now < lease.expires_at THEN Some(lease.expires_at - now) ELSE None

\* a map without one key (HashMap::remove)
map_remove(m, k) == [x \in (DOMAIN m) \ {k} |-> m[x]]

\* a map with one key set (HashMap::insert)
map_insert(m, k, v) == [x \in (DOMAIN m) \cup {k} |-> IF x = k THEN v ELSE m[x]]

EmptyMap == [x \in {} |-> x]

LeaseManager_new == [leases |-> EmptyMap]

\* variant: an existing lease is kept (entry().or_insert)
add_lease_if_absent(lm, secret_name, duration, now) ==
    IF secret_name \in DOMAIN lm.leases THEN lm
    ELSE [leases |-> map_insert(lm.leases, secret_name, Lease_new(duration, now))]

add_lease(lm, secret_name, duration, now) ==
    [leases |-> map_insert(lm.leases, secret_name, Lease_new(duration, now))]

get_lease(lm, secret_name) ==
    IF secret_name \in DOMAIN lm.leases THEN Some(lm.leases[secret_name]) ELSE None

remove_lease(lm, secret_name) == [leases |-> map_remove(lm.leases, secret_name)]

get_expired_secrets(lm, now) ==
    { n \in DOMAIN lm.leases : is_expired(lm.leases[n], now) }

\* variant: the expired names are returned and their leases are kept
cleanup_expired_keeps(lm, now) ==
    [lm |-> lm, expired |-> get_expired_secrets(lm, now)]

\* the manager after the cleanup, and the names it returns
cleanup_expired(lm, now) ==
    LET expired == get_expired_secrets(lm, now)
    IN  [lm |-> [leases |-> [n \in (DOMAIN lm.leases) \ expired |-> lm.leases[n]]],
         expired |-> expired]

active_leases_count(lm, now) ==
    Cardinality({ n \in DOMAIN lm.leases : ~is_expired(lm.leases[n], now) })

expired_leases_count(lm, now) ==
    Cardinality({ n \in DOMAIN lm.leases : is_expired(lm.leases[n], now) })

\* str::parse::<i64>: an optional sign, then one or more ASCII digits
RECURSIVE digits_value(_)
digits_value(s) ==
    IF s = <<>> THEN 0 ELSE digits_value(SubSeq(s, 1, Len(s) - 1)) * 10 + (s[Len(s)] - 48)

parse_i64(s) ==
    LET signed == s # <<>> /\ Head(s) \in {43, 45}
        body   == IF signed THEN Tail(s) ELSE s
    IN  IF body = <<>> \/ \E i \in 1..Len(body) : ~is_digit(body[i])
        THEN Err("ParseIntError")
        ELSE Ok(IF signed /\ Head(s) = 45 THEN 0 - digits_value(body) ELSE digits_value(body))

\* the position of the last alphabetic character, 0 when there is none
rfind_alphabetic(s) ==
    LET idx == { i \in 1..Len(s) : is_alphabetic(s[i]) }
    IN  IF idx = {} THEN 0 ELSE CHOOSE i \in idx : \A j \in idx : j <= i

\* the unit spellings of the match in parse_duration, and their seconds
unit_seconds(u) ==
    IF u \in { <<115>>, <<115, 101, 99>>, <<115, 101, 99, 111, 110, 100, 115>> } THEN Some(1)
    ELSE IF u \in { <<109>>, <<109, 105, 110>>, <<109, 105, 110, 117, 116, 101, 115>> } THEN Some(60)
    ELSE IF u \in { <<104>>, <<104, 111, 117, 114>>, <<104, 111, 117, 114, 115>> } THEN Some(3600)
    ELSE IF u \in { <<100>>, <<100, 97, 121>>, <<100, 97, 121, 115>> } THEN Some(86400)
    ELSE IF u \in { <<119>>, <<119, 101, 101, 107>>, <<119, 101, 101, 107, 115>> } THEN Some(604800)
    ELSE None

\* variant: a magnitude of zero or less is accepted
parse_duration_any_sign(duration_str) ==
    LET s   == trim(duration_str)
        pos == rfind_alphabetic(s)
        number_part == SubSeq(s, 1, pos - 1)
        unit_part   == SubSeq(s, pos, Len(s))
        number == parse_i64(number_part)
        unit   == unit_seconds(to_lowercase(unit_part))
    IN  IF s = <<>> THEN Err("ValidationError")
        ELSE IF pos = 0 THEN Err("ValidationError")
        ELSE IF ~number.ok THEN Err("ValidationError")
        ELSE IF unit = None THEN Err("ValidationError")
        ELSE Ok(number.val * unit[1])

\* parse_duration: the duration in seconds
parse_duration(duration_str) ==
    LET s   == trim(duration_str)
        pos == rfind_alphabetic(s)
        number_part == SubSeq(s, 1, pos - 1)
        unit_part   == SubSeq(s, pos, Len(s))
        number == parse_i64(number_part)
        unit   == unit_seconds(to_lowercase(unit_part))
    IN  IF s = <<>> THEN Err("ValidationError")
        ELSE IF pos = 0 THEN Err("ValidationError")
        ELSE IF ~number.ok THEN Err("ValidationError")
        ELSE IF number.val <= 0 THEN Err("ValidationError")
        ELSE IF unit = None THEN Err("ValidationError")
        ELSE Ok(number.val * unit[1])

(* ------------------------------ crypto.rs ------------------------------- *)

NonceLen == 12

\* Aes256Gcm::generate_nonce: 96 random bits, r the random draw
generate_nonce(r) == <<r>> \o Repeat(0, NonceLen - 1)

\* derive_key_from_password: Argon2 is a deterministic function of
\* (password, salt); the key stands for its first 32 output bytes
derive_key_from_password(password, salt) == Ok([kdf |-> "argon2id", password |-> password, salt |-> salt])

\* hash_password: the PHC string carries its own salt (r is the random salt)
hash_password(password, r) == Ok([alg |-> "argon2id", salt |-> r, hash |-> <<password, r>>])

\* crypto::verify_password: recompute the hash with the salt of the PHC string
verify_password(password, hash_str) == Ok(hash_str.hash = <<password, hash_str.salt>>)

RECURSIVE sum_seq(_)
sum_seq(s) == IF s = <<>> THEN 0 ELSE Head(s) + sum_seq(Tail(s))

\* the code points of Rust's char: 0..0x10FFFF without the surrogates
CodePoints == 1114112

\* the UTF-8 encoding of one code point
utf8_bytes(c) ==
    IF c < 128 THEN <<c>>
    ELSE IF c < 2048 THEN <<192 + (c \div 64), 128 + (c % 64)>>
    ELSE IF c < 65536 THEN <<224 + (c \div 4096), 128 + ((c \div 64) % 64), 128 + (c % 64)>>
    ELSE <<240 + (c \div 262144), 128 + ((c \div 4096) % 64), 128 + ((c \div 64) % 64),
           128 + (c % 64)>>

\* variant: every character is cast to one byte
RECURSIVE as_bytes_cast(_)
as_bytes_cast(s) == IF s = <<>> THEN <<>> ELSE <<Head(s) % 256>> \o as_bytes_cast(Tail(s))

\* str::as_bytes: the UTF-8 bytes of a string
RECURSIVE as_bytes(_)
as_bytes(s) == IF s = <<>> THEN <<>> ELSE utf8_bytes(Head(s)) \o as_bytes(Tail(s))

is_continuation(b) == b \in 128..191

\* the first character of a byte string: its code point and its number of bytes,
\* None when the bytes do not start with a well-formed UTF-8 sequence
first_char(b) ==
    LET n  == Len(b)
        b1 == b[1]
    IN  IF b1 < 128 THEN Some(<<b1, 1>>)
        ELSE IF b1 \in 194..223 /\ n >= 2 /\ is_continuation(b[2])
             THEN Some(<<(b1 - 192) * 64 + (b[2] - 128), 2>>)
        ELSE IF b1 \in 224..239 /\ n >= 3 /\ is_continuation(b[2]) /\ is_continuation(b[3])
             THEN LET c == (b1 - 224) * 4096 + (b[2] - 128) * 64 + (b[3] - 128)
                  IN  IF c >= 2048 /\ c \notin 55296..57343 THEN Some(<<c, 3>>) ELSE None
        ELSE IF b1 \in 240..244 /\ n >= 4 /\ is_continuation(b[2]) /\ is_continuation(b[3])
                  /\ is_continuation(b[4])
             THEN LET c == (b1 - 240) * 262144 + (b[2] - 128) * 4096 + (b[3] - 128) * 64
                             + (b[4] - 128)
                  IN  IF c >= 65536 /\ c < CodePoints THEN Some(<<c, 4>>) ELSE None
        ELSE None

\* String::from_utf8
RECURSIVE from_utf8(_)
from_utf8(b) ==
    IF b = <<>> THEN Ok(<<>>)
    ELSE LET f == first_char(b)
         IN  IF f = None THEN Err("EncodingError")
             ELSE LET rest == from_utf8(SubSeq(b, f[1][2] + 1, Len(b)))
                  IN  IF ~rest.ok THEN rest ELSE Ok(<<f[1][1]>> \o rest.val)

\* the AES-CTR keystream of (key, nonce), one pad for every position
keystream(key, nonce) == 1 + ((sum_seq(key.password) + 7 * key.salt + 13 * sum_seq(nonce)) % 251)

TagLen == 16

\* the GCM tag of a ciphertext body: a function of key, nonce and body
gcm_tag(key, nonce, body) == <<key, nonce, body>>

\* a ciphertext Vec<u8>: the masked bytes, then the TagLen bytes of the tag
\* (tag None: the vector is shorter than a tag)
Ciphertext(body, tag) == [body |-> body, tag |-> tag]

\* CryptoEngine::encrypt with the random draw r
encrypt(key, plaintext, r) ==
    LET nonce == generate_nonce(r)
        bytes == as_bytes(plaintext)
        body  == [i \in 1..Len(bytes) |-> (bytes[i] + keystream(key, nonce)) % 256]
    IN  Ok([ciphertext |-> Ciphertext(body, Some(gcm_tag(key, nonce, body))), nonce |-> nonce])

\* CryptoEngine::decrypt: Nonce::from_slice panics on a nonce of another length;
\* the cipher returns the bytes only when the tag verifies
decrypt(key, encrypted) ==
    LET ct == encrypted.ciphertext
    IN  IF Len(encrypted.nonce) # NonceLen THEN Err("panic")
        ELSE IF ct.tag = None THEN Err("DecryptionError")
        ELSE IF ct.tag[1] # gcm_tag(key, encrypted.nonce, ct.body) THEN Err("DecryptionError")
        ELSE from_utf8([i \in 1..Len(ct.body) |->
                           (ct.body[i] + 256 - keystream(key, encrypted.nonce)) % 256])

(* ----------------------------- serialisation ---------------------------- *)

\* a map as RON writes it: the set of its (key, value) pairs
ron_map(m) == { <<k, m[k]>> : k \in DOMAIN m }

ron_unmap(S) == [k \in { p[1] : p \in S } |-> (CHOOSE p \in S : p[1] = k)[2]]

\* ron::to_string(&VaultData)
ron_to_string(data) ==
    << "VaultData", ron_map(data.secrets), ron_map(data.lease_manager.leases),
       data.created_at, data.version >>

\* ron::from_str::<VaultData>
ron_from_str(str) ==
    IF Len(str) = 5 /\ str[1] = "VaultData"
    THEN Ok([secrets       |-> ron_unmap(str[2]),
             lease_manager |-> [leases |-> ron_unmap(str[3])],
             created_at    |-> str[4],
             version       |-> str[5]])
    ELSE Err("CorruptVault")

identity_to_string(identity) ==
    << "Identity", identity.password_hash, identity.salt, identity.created_at >>

identity_from_str(str) ==
    IF Len(str) = 4 /\ str[1] = "Identity"
    THEN Ok([password_hash |-> str[2], salt |-> str[3], created_at |-> str[4]])
    ELSE Err("CorruptVault")

(* ----------------------------- identity.rs ------------------------------ *)

MinPasswordLen == 8

Identity_new(password, r1, r2, now) ==
    [password_hash |-> hash_password(password, r1).val, salt |-> r2, created_at |-> now]

Identity_verify_password(identity, password) == verify_password(password, identity.password_hash)

\* variant: the key is derived without verifying the password
derive_key_unverified(identity, password) ==
    derive_key_from_password(password, identity.salt)

derive_key(identity, password) ==
    IF ~Identity_verify_password(identity, password).val
    THEN Err("InvalidCredentials")
    ELSE derive_key_from_password(password, identity.salt)

\* Identity::load on the identity file (None: no file)
Identity_load(file) ==
    IF file = None THEN Err("MissingVault") ELSE identity_from_str(file[1])

\* variant: the identity file is never found
Identity_exists_never(file) == FALSE

Identity_exists(file) == file # None

prompt_master_password(password) ==
    IF str_len(password) < MinPasswordLen THEN Err("WeakPassword") ELSE Ok(password)

\* variant: a password of exactly the minimum length is refused
prompt_new_master_password_longer(password, confirm) ==
    IF str_len(password) <= MinPasswordLen THEN Err("WeakPassword")
    ELSE IF password # confirm THEN Err("PasswordMismatch")
    ELSE Ok(password)

prompt_new_master_password(password, confirm) ==
    IF str_len(password) < MinPasswordLen THEN Err("WeakPassword")
    ELSE IF password # confirm THEN Err("PasswordMismatch")
    ELSE Ok(password)

authenticate(file, password) ==
    LET identity == Identity_load(file)
        pw       == prompt_master_password(password)
    IN  IF ~identity.ok THEN identity
        ELSE IF ~pw.ok THEN pw
        ELSE derive_key(identity.val, pw.val)

(* ------------------------------- vault.rs ------------------------------- *)

\* variant: a new entry counts its creation as an access
SecretEntry_new_accessed(encrypted_value, now) ==
    [encrypted_value |-> encrypted_value,
     created_at      |-> now,
     updated_at      |-> now,
     access_count    |-> 1,
     last_accessed   |-> Some(now)]

SecretEntry_new(encrypted_value, now) ==
    [encrypted_value |-> encrypted_value,
     created_at      |-> now,
     updated_at      |-> now,
     access_count    |-> 0,
     last_accessed   |-> None]

VaultData_default(now) ==
    [secrets       |-> EmptyMap,
     lease_manager |-> LeaseManager_new,
     created_at    |-> now,
     version       |-> "0.1.0"]

\* fs::write is File::create (which truncates the file) followed by write_all,
\* with outcome w: the new file content (None: file left as it was) and the result.
\*   "ok"      all bytes written
\*   "refused" File::create fails: the file is left as it was
\*   "short"   write_all fails part way: the file keeps the bytes written so far
\*   "killed"  the process dies between the truncation and the first byte
fs_write(content, w) ==
    IF w = "ok" THEN [file |-> Some(content), res |-> Ok(Unit)]
    ELSE IF w = "refused" THEN [file |-> None, res |-> Err("IOError")]
    ELSE IF w = "short" THEN [file |-> Some(SubSeq(content, 1, 2)), res |-> Err("IOError")]
    ELSE [file |-> Some(<<>>), res |-> Err("Killed")]

\* variant: save returns without writing the file
save_skipped(v, w) == [file |-> None, res |-> Ok(Unit)]

\* Vault::save
save(v, w) == fs_write(ron_to_string(v.data), w)

\* variant: the sweep removes the expired leases and forgets their secret entries
load_leases_only(idFile, vFile, password, now) ==
    LET key  == authenticate(idFile, password)
        data == ron_from_str(vFile[1])
        swept == cleanup_expired(data.val.lease_manager, now)
    IN  IF ~key.ok THEN key
        ELSE IF vFile = None THEN Err("MissingVault")
        ELSE IF ~data.ok THEN data
        ELSE Ok([data |-> [data.val EXCEPT !.lease_manager = swept.lm],
                 crypto_engine |-> key.val])

\* variant: the key is derived with a salt drawn at load time, not the stored one
load_fresh_salt(idFile, vFile, password, now) ==
    LET key  == authenticate(idFile, password)
        data == ron_from_str(vFile[1])
        swept == cleanup_expired(data.val.lease_manager, now)
    IN  IF ~key.ok THEN key
        ELSE IF vFile = None THEN Err("MissingVault")
        ELSE IF ~data.ok THEN data
        ELSE Ok([data |-> [data.val EXCEPT
                              !.lease_manager = swept.lm,
                              !.secrets = [n \in (DOMAIN data.val.secrets) \ swept.expired |->
                                              data.val.secrets[n]]],
                 crypto_engine |-> derive_key_from_password(password, now).val])

\* Vault::load: the instance, or the error
load(idFile, vFile, password, now) ==
    LET key  == authenticate(idFile, password)
        data == ron_from_str(vFile[1])
        swept == cleanup_expired(data.val.lease_manager, now)
    IN  IF ~key.ok THEN key
        ELSE IF vFile = None THEN Err("MissingVault")
        ELSE IF ~data.ok THEN data
        ELSE Ok([data |-> [data.val EXCEPT
                              !.lease_manager = swept.lm,
                              !.secrets = [n \in (DOMAIN data.val.secrets) \ swept.expired |->
                                              data.val.secrets[n]]],
                 crypto_engine |-> key.val])

\* variant: the entry is inserted before the value is validated
add_secret_validates_late(v, name, value, r, now, w) ==
    LET n   == sanitize_secret_name(name)
        val == validate_secret_value(value)
        enc == encrypt(v.crypto_engine, value, r)
        v2  == [v EXCEPT !.data.secrets =
                   map_insert(v.data.secrets, n.val, SecretEntry_new(enc.val, now))]
        sv  == save(v2, w)
    IN  IF ~n.ok THEN [v |-> v, file |-> None, res |-> n]
        ELSE IF ~enc.ok THEN [v |-> v, file |-> None, res |-> enc]
        ELSE IF ~val.ok THEN [v |-> v2, file |-> None, res |-> val]
        ELSE [v |-> v2, file |-> sv.file, res |-> sv.res]

\* Vault::add_secret: the instance afterwards, the file written, the result
add_secret(v, name, value, r, now, w) ==
    LET n   == sanitize_secret_name(name)
        val == validate_secret_value(value)
        enc == encrypt(v.crypto_engine, value, r)
        v2  == [v EXCEPT !.data.secrets =
                   map_insert(v.data.secrets, n.val, SecretEntry_new(enc.val, now))]
        sv  == save(v2, w)
    IN  IF ~n.ok THEN [v |-> v, file |-> None, res |-> n]
        ELSE IF ~val.ok THEN [v |-> v, file |-> None, res |-> val]
        ELSE IF ~enc.ok THEN [v |-> v, file |-> None, res |-> enc]
        ELSE [v |-> v2, file |-> sv.file, res |-> sv.res]

\* variant: no expiry check at query time
get_secret_unchecked(v, name, now) ==
    LET n == sanitize_secret_name(name)
    IN  IF ~n.ok THEN n
        ELSE IF n.val \in DOMAIN v.data.secrets
        THEN LET decrypted == decrypt(v.crypto_engine, v.data.secrets[n.val].encrypted_value)
             IN  IF ~decrypted.ok THEN decrypted ELSE Ok(Some(decrypted.val))
        ELSE Ok(None)

\* Vault::get_secret
get_secret(v, name, now) ==
    LET n == sanitize_secret_name(name)
        lease == get_lease(v.data.lease_manager, n.val)
    IN  IF ~n.ok THEN n
        ELSE IF n.val \in DOMAIN v.data.secrets
        THEN IF lease # None /\ is_expired(lease[1], now)
             THEN Ok(None)
             ELSE LET decrypted == decrypt(v.crypto_engine, v.data.secrets[n.val].encrypted_value)
                  IN  IF ~decrypted.ok THEN decrypted ELSE Ok(Some(decrypted.val))
        ELSE Ok(None)

\* variant: the comparator is reversed
RECURSIVE sort_by_name_desc(_)
sort_by_name_desc(S) ==
    IF S = {} THEN <<>>
    ELSE LET m == CHOOSE p \in S : \A q \in S : q = p \/ str_lt(q[1], p[1])
         IN  <<m>> \o sort_by_name_desc(S \ {m})

\* Vec::sort_by on the name of (name, expiry) pairs whose names are distinct
RECURSIVE sort_by_name(_)
sort_by_name(S) ==
    IF S = {} THEN <<>>
    ELSE LET m == CHOOSE p \in S : \A q \in S : q = p \/ str_lt(p[1], q[1])
         IN  <<m>> \o sort_by_name(S \ {m})

\* Vault::list_secrets
list_secrets(v, now) ==
    LET lm == v.data.lease_manager
        pushed == { <<name, IF get_lease(lm, name) = None THEN None
                             ELSE Some(get_lease(lm, name)[1].expires_at)>> :
                    name \in { x \in DOMAIN v.data.secrets :
                                 ~(get_lease(lm, x) # None /\ is_expired(get_lease(lm, x)[1], now)) } }
    IN  Ok(sort_by_name(pushed))

\* variant: the lease of the removed name is left in the manager
remove_secret_keeps_lease(v, name, w) ==
    LET n  == sanitize_secret_name(name)
        removed == n.val \in DOMAIN v.data.secrets
        v2 == [v EXCEPT !.data.secrets = map_remove(v.data.secrets, n.val)]
        sv == save(v2, w)
    IN  IF ~n.ok THEN [v |-> v, file |-> None, res |-> n]
        ELSE IF removed
        THEN [v |-> v2, file |-> sv.file, res |-> IF sv.res.ok THEN Ok(TRUE) ELSE sv.res]
        ELSE [v |-> v2, file |-> None, res |-> Ok(FALSE)]

\* variant: the vault is saved whether or not anything was removed
remove_secret_always_saves(v, name, w) ==
    LET n  == sanitize_secret_name(name)
        removed == n.val \in DOMAIN v.data.secrets
        v2 == [v EXCEPT !.data.secrets = map_remove(v.data.secrets, n.val),
                        !.data.lease_manager = remove_lease(v.data.lease_manager, n.val)]
        sv == save(v2, w)
    IN  IF ~n.ok THEN [v |-> v, file |-> None, res |-> n]
        ELSE [v |-> v2, file |-> sv.file, res |-> IF sv.res.ok THEN Ok(removed) ELSE sv.res]

\* Vault::remove_secret
remove_secret(v, name, w) ==
    LET n  == sanitize_secret_name(name)
        removed == n.val \in DOMAIN v.data.secrets
        v2 == [v EXCEPT !.data.secrets = map_remove(v.data.secrets, n.val),
                        !.data.lease_manager = remove_lease(v.data.lease_manager, n.val)]
        sv == save(v2, w)
    IN  IF ~n.ok THEN [v |-> v, file |-> None, res |-> n]
        ELSE IF removed
        THEN [v |-> v2, file |-> sv.file, res |-> IF sv.res.ok THEN Ok(TRUE) ELSE sv.res]
        ELSE [v |-> v2, file |-> None, res |-> Ok(FALSE)]

\* variant: the lease is created whether or not the name has a secret entry
set_expiry_any_name(v, name, duration_str, now, w) ==
    LET n  == sanitize_secret_name(name)
        duration == parse_duration(duration_str)
        v2 == [v EXCEPT !.data.lease_manager =
                  add_lease(v.data.lease_manager, n.val, duration.val, now)]
        sv == save(v2, w)
    IN  IF ~n.ok THEN [v |-> v, file |-> None, res |-> n]
        ELSE IF ~duration.ok THEN [v |-> v, file |-> None, res |-> duration]
        ELSE [v |-> v2, file |-> sv.file, res |-> sv.res]

\* variant: the new lease is not saved
set_expiry_no_save(v, name, duration_str, now, w) ==
    LET n  == sanitize_secret_name(name)
        duration == parse_duration(duration_str)
        v2 == [v EXCEPT !.data.lease_manager =
                  add_lease(v.data.lease_manager, n.val, duration.val, now)]
    IN  IF ~n.ok THEN [v |-> v, file |-> None, res |-> n]
        ELSE IF n.val \notin DOMAIN v.data.secrets
        THEN [v |-> v, file |-> None, res |-> Err("NotFound")]
        ELSE IF ~duration.ok THEN [v |-> v, file |-> None, res |-> duration]
        ELSE [v |-> v2, file |-> None, res |-> Ok(Unit)]

\* Vault::set_expiry
set_expiry(v, name, duration_str, now, w) ==
    LET n  == sanitize_secret_name(name)
        duration == parse_duration(duration_str)
        v2 == [v EXCEPT !.data.lease_manager =
                  add_lease(v.data.lease_manager, n.val, duration.val, now)]
        sv == save(v2, w)
    IN  IF ~n.ok THEN [v |-> v, file |-> None, res |-> n]
        ELSE IF n.val \notin DOMAIN v.data.secrets
        THEN [v |-> v, file |-> None, res |-> Err("NotFound")]
        ELSE IF ~duration.ok THEN [v |-> v, file |-> None, res |-> duration]
        ELSE [v |-> v2, file |-> sv.file, res |-> sv.res]

\* Vault::create_backup: the aggregate of the instance with the verifier of the
\* identity file
create_backup(v, idFile, now) ==
    LET identity == Identity_load(idFile)
    IN  IF ~identity.ok THEN identity
        ELSE Ok([vault_data    |-> v.data,
                 identity_hash |-> identity.val.password_hash,
                 created_at    |-> now,
                 version       |-> "0.1.0"])

\* fs::metadata(path).len(): the size of the file, here the number of fields,
\* entries and leases it holds
file_len(content) ==
    Len(content)
      + (IF Len(content) >= 2 THEN Cardinality(content[2]) ELSE 0)
      + (IF Len(content) >= 3 THEN Cardinality(content[3]) ELSE 0)

\* Vault::get_stats
get_stats(v, vFile, now) ==
    Ok([total_secrets   |-> Cardinality(DOMAIN v.data.secrets),
        active_leases   |-> active_leases_count(v.data.lease_manager, now),
        expired_secrets |-> expired_leases_count(v.data.lease_manager, now),
        vault_size      |-> IF vFile # None THEN file_len(vFile[1]) ELSE 0])

(* ------------------------------- the store ------------------------------ *)

\* the inputs the callers supply
Sessions == {1, 2}

P_p == Repeat(112, 8)

P_q == Repeat(113, 8)

P_short == <<112, 113>>

Passwords == {P_p, P_q, P_short}

\* the passwords typed at initialization
NewPasswords == {P_p, P_short}

\* one process at a time runs against the store
SeqSessions == {1}

Names == {S_a, S_b, S_slash}

\* the names that sanitize_secret_name accepts
ValidNames == { n \in Names : sanitize_secret_name(n).ok }

Values == {S_x, S_y, S_empty}

\* the values that validate_secret_value accepts
ValidValues == { v \in Values : validate_secret_value(v).ok }

\* "1s", "1x"
D_1s == <<49, 115>>

D_1x == <<49, 120>>

DurationTexts == {D_1s, D_1x}

\* the duration texts that parse_duration accepts
ValidDurationTexts == { d \in DurationTexts : parse_duration(d).ok }

\* one name and one value, where the claim is not about which
OneName == {S_a}

OneValue == {S_x}

\* the draws of the random generator: nonces and salts
Nonces == {0}

Salts == {0}

\* the storage never fails a write
WriteOutcomes == {"ok"}

\* the storage may fail a write, and the process may die in one
FaultOutcomes == {"ok", "refused", "short", "killed"}

VARIABLES
    now,           \* the wall clock (Utc::now)
    identityFile,  \* ~/.sentinelvault/identity.ron: Option of its content
    vaultFile,     \* ~/.sentinelvault/vault.ron: Option of its content
    vault,         \* per session: Option of the Vault instance of the running process
    ret,           \* the call that returned last and its result
    stored,        \* history: name -> the plaintext of the last successful add_secret,
                   \* forgotten when remove_secret removes the name
    expiry,        \* history: name -> expires_at of the last successful set_expiry,
                   \*   forgotten when a later add_secret or remove_secret changes the name
    hist,          \* history of concurrent sessions: per session the aggregate it
                   \*   loaded and the mutation it has saved since
    box            \* a CryptoEngine at work on its own: the key, the plaintext and
                   \*   the EncryptedData handed from encrypt to decrypt

vars == <<now, identityFile, vaultFile, vault, ret, stored, expiry, hist, box>>

\* nothing is recorded of a session yet
NoHist == [s \in Sessions |-> [loaded |-> None, mut |-> None]]

\* no engine is at work: the key of the encrypting engine, the plaintext, the
\* EncryptedData on its way, whether it was altered, the key of the last decrypt
NoBox == [key |-> None, plaintext |-> None, data |-> None, tampered |-> FALSE, reader |-> None]

\* a session that is recorded has saved the mutation op of name
Logged(s, op, name, saved) ==
    IF saved /\ hist[s].loaded # None
    THEN [hist EXCEPT ![s].mut = Some(<<op, name>>)]
    ELSE hist

Call(op, s, name, res) == [op |-> op, s |-> s, name |-> name, res |-> res]

NoCall == Call("none", 0, <<>>, Ok(Unit))

\* the file after a write that may have left it alone
written(old, file) == IF file = None THEN old ELSE file

\* the process died in the call
Killed(res) == ~res.ok /\ res.val = "Killed"

\* the instance of a session after a call: a process that died has none
after(o) == IF Killed(o.res) THEN None ELSE Some(o.v)

Init ==
    /\ now = 0
    /\ identityFile = None
    /\ vaultFile = None
    /\ vault = [s \in Sessions |-> None]
    /\ ret = NoCall
    /\ stored = EmptyMap
    /\ expiry = EmptyMap
    /\ hist = NoHist
    /\ box = NoBox

\* Vault::init
VaultInit(password, confirm, r1, r2, w1, w2) ==
    LET pw  == prompt_new_master_password(password, confirm)
        idw == fs_write(identity_to_string(Identity_new(pw.val, r1, r2, now)), w1)
        vw  == fs_write(ron_to_string(VaultData_default(now)), w2)
        res == IF Identity_exists(identityFile) THEN Err("AlreadyInitialized")
               ELSE IF ~pw.ok THEN pw
               ELSE IF ~idw.res.ok THEN idw.res
               ELSE vw.res
        reached_id == ~Identity_exists(identityFile) /\ pw.ok
    IN  /\ identityFile' = IF reached_id THEN written(identityFile, idw.file) ELSE identityFile
        /\ vaultFile' = IF reached_id /\ idw.res.ok THEN written(vaultFile, vw.file) ELSE vaultFile
        /\ ret' = Call("init", 0, <<>>, res)
        /\ UNCHANGED <<now, vault, stored, expiry, hist, box>>

\* a process starts and calls Vault::load
LoadStep(s, password) ==
    LET r == load(identityFile, vaultFile, password, now)
    IN  /\ vault[s] = None
        /\ vault' = [vault EXCEPT ![s] = IF r.ok THEN Some(r.val) ELSE None]
        /\ ret' = Call("load", s, <<>>, IF r.ok THEN Ok(Unit) ELSE r)
        /\ UNCHANGED <<now, identityFile, vaultFile, stored, expiry, box>>

\* one session at a time: a process runs after the previous one has ended
Load(s, password) ==
    /\ \A t \in Sessions : vault[t] = None
    /\ LoadStep(s, password)
    /\ UNCHANGED hist

AddSecret(s, name, value, r, w) ==
    /\ vault[s] # None
    /\ LET o == add_secret(vault[s][1], name, value, r, now, w)
       IN  /\ vault' = [vault EXCEPT ![s] = after(o)]
           /\ vaultFile' = written(vaultFile, o.file)
           /\ ret' = Call("add_secret", s, name, o.res)
           /\ stored' = IF o.res.ok THEN map_insert(stored, name, value) ELSE stored
           /\ expiry' = IF o.res.ok THEN map_remove(expiry, name) ELSE expiry
           /\ hist' = Logged(s, "add_secret", name, o.res.ok)
    /\ UNCHANGED <<now, identityFile, box>>

GetSecret(s, name) ==
    /\ vault[s] # None
    /\ ret' = Call("get_secret", s, name, get_secret(vault[s][1], name, now))
    /\ UNCHANGED <<now, identityFile, vaultFile, vault, stored, expiry, hist, box>>

ListSecrets(s) ==
    /\ vault[s] # None
    /\ ret' = Call("list_secrets", s, <<>>, list_secrets(vault[s][1], now))
    /\ UNCHANGED <<now, identityFile, vaultFile, vault, stored, expiry, hist, box>>

RemoveSecret(s, name, w) ==
    /\ vault[s] # None
    /\ LET o == remove_secret(vault[s][1], name, w)
       IN  /\ vault' = [vault EXCEPT ![s] = after(o)]
           /\ vaultFile' = written(vaultFile, o.file)
           /\ ret' = Call("remove_secret", s, name, o.res)
           /\ stored' = IF o.res.ok /\ o.res.val THEN map_remove(stored, name) ELSE stored
           /\ expiry' = IF o.res.ok /\ o.res.val THEN map_remove(expiry, name) ELSE expiry
           /\ hist' = Logged(s, "remove_secret", name, o.res.ok /\ o.res.val)
    /\ UNCHANGED <<now, identityFile, box>>

SetExpiry(s, name, duration_str, w) ==
    /\ vault[s] # None
    /\ LET o == set_expiry(vault[s][1], name, duration_str, now, w)
       IN  /\ vault' = [vault EXCEPT ![s] = after(o)]
           /\ vaultFile' = written(vaultFile, o.file)
           /\ ret' = Call("set_expiry", s, name, o.res)
           /\ expiry' = IF o.res.ok
                        THEN map_insert(expiry, name, now + parse_duration(duration_str).val)
                        ELSE expiry
           /\ hist' = Logged(s, "set_expiry", name, o.res.ok)
    /\ UNCHANGED <<now, identityFile, stored, box>>

CreateBackup(s) ==
    /\ vault[s] # None
    /\ ret' = Call("create_backup", s, <<>>, create_backup(vault[s][1], identityFile, now))
    /\ UNCHANGED <<now, identityFile, vaultFile, vault, stored, expiry, hist, box>>

GetStats(s) ==
    /\ vault[s] # None
    /\ ret' = Call("get_stats", s, <<>>, get_stats(vault[s][1], vaultFile, now))
    /\ UNCHANGED <<now, identityFile, vaultFile, vault, stored, expiry, hist, box>>

\* the process of a session ends
Exit(s) ==
    /\ vault[s] # None
    /\ vault' = [vault EXCEPT ![s] = None]
    /\ ret' = NoCall
    /\ hist' = [hist EXCEPT ![s] = NoHist[s]]
    /\ UNCHANGED <<now, identityFile, vaultFile, stored, expiry, box>>

\* the wall clock advances by one second
Tick ==
    /\ now < MaxTime
    /\ now' = now + 1
    /\ ret' = NoCall
    /\ UNCHANGED <<identityFile, vaultFile, vault, stored, expiry, hist, box>>

Next ==
    \/ \E pw \in NewPasswords, cf \in NewPasswords, r1 \in Salts, r2 \in Salts, w1 \in WriteOutcomes, w2 \in WriteOutcomes :
          VaultInit(pw, cf, r1, r2, w1, w2)
    \/ \E s \in SeqSessions, pw \in Passwords : Load(s, pw)
    \/ \E s \in SeqSessions, n \in ValidNames, v \in ValidValues, r \in Nonces, w \in WriteOutcomes :
          AddSecret(s, n, v, r, w)
    \/ \E s \in SeqSessions, n \in ValidNames : GetSecret(s, n)
    \/ \E s \in SeqSessions : ListSecrets(s)
    \/ \E s \in SeqSessions, n \in ValidNames, w \in WriteOutcomes : RemoveSecret(s, n, w)
    \/ \E s \in SeqSessions, n \in ValidNames, d \in ValidDurationTexts, w \in WriteOutcomes :
          SetExpiry(s, n, d, w)
    \/ \E s \in SeqSessions : Exit(s)
    \/ Tick

Spec == Init /\ [][Next]_vars

\* every command of the program
NextAll ==
    \/ \E pw \in NewPasswords, cf \in NewPasswords, r1 \in Salts, r2 \in Salts, w1 \in WriteOutcomes, w2 \in WriteOutcomes :
          VaultInit(pw, cf, r1, r2, w1, w2)
    \/ \E s \in SeqSessions, pw \in Passwords : Load(s, pw)
    \/ \E s \in SeqSessions, n \in OneName, v \in OneValue, r \in Nonces, w \in WriteOutcomes :
          AddSecret(s, n, v, r, w)
    \/ \E s \in SeqSessions, n \in OneName : GetSecret(s, n)
    \/ \E s \in SeqSessions : ListSecrets(s)
    \/ \E s \in SeqSessions, n \in OneName, w \in WriteOutcomes : RemoveSecret(s, n, w)
    \/ \E s \in SeqSessions, n \in OneName, d \in ValidDurationTexts, w \in WriteOutcomes :
          SetExpiry(s, n, d, w)
    \/ \E s \in SeqSessions : CreateBackup(s)
    \/ \E s \in SeqSessions : GetStats(s)
    \/ \E s \in SeqSessions : Exit(s)
    \/ Tick

SpecAll == Init /\ [][NextAll]_vars

\* the same program called with rejected names, values and durations as well:
\* every name and duration text, and one value that passes validation and one that
\* does not
SomeValues == {S_x, S_empty}

NextAnyInput ==
    \/ \E pw \in NewPasswords, cf \in NewPasswords, r1 \in Salts, r2 \in Salts, w1 \in WriteOutcomes, w2 \in WriteOutcomes :
          VaultInit(pw, cf, r1, r2, w1, w2)
    \/ \E s \in SeqSessions, pw \in Passwords : Load(s, pw)
    \/ \E s \in SeqSessions, n \in Names, v \in SomeValues, r \in Nonces, w \in WriteOutcomes :
          AddSecret(s, n, v, r, w)
    \/ \E s \in SeqSessions, n \in Names : GetSecret(s, n)
    \/ \E s \in SeqSessions : ListSecrets(s)
    \/ \E s \in SeqSessions, n \in Names, w \in WriteOutcomes : RemoveSecret(s, n, w)
    \/ \E s \in SeqSessions, n \in Names, d \in DurationTexts, w \in WriteOutcomes :
          SetExpiry(s, n, d, w)
    \/ \E s \in SeqSessions : Exit(s)
    \/ Tick

SpecAnyInput == Init /\ [][NextAnyInput]_vars

(* ------------------------ a storage that may fail ------------------------ *)

\* the program on a storage whose writes may fail and with processes that may die
\* in a write
NextFault ==
    \/ \E pw \in NewPasswords, cf \in NewPasswords, r1 \in Salts, r2 \in Salts, w1 \in FaultOutcomes, w2 \in FaultOutcomes :
          VaultInit(pw, cf, r1, r2, w1, w2)
    \/ \E s \in SeqSessions, pw \in Passwords : Load(s, pw)
    \/ \E s \in SeqSessions, n \in OneName, v \in OneValue, r \in Nonces, w \in FaultOutcomes :
          AddSecret(s, n, v, r, w)
    \/ \E s \in SeqSessions, n \in OneName : GetSecret(s, n)
    \/ \E s \in SeqSessions : ListSecrets(s)
    \/ \E s \in SeqSessions, n \in OneName, w \in FaultOutcomes : RemoveSecret(s, n, w)
    \/ \E s \in SeqSessions, n \in OneName, d \in ValidDurationTexts, w \in FaultOutcomes :
          SetExpiry(s, n, d, w)
    \/ \E s \in SeqSessions : Exit(s)
    \/ Tick

SpecFault == Init /\ [][NextFault]_vars

(* ------------------- a store handed over from outside -------------------- *)

\* the vault records a session may find: any secret entries of the key of P_p and
\* any leases, also for names that have no secret entry
PartialMaps(D, R) == UNION { [X -> R] : X \in SUBSET D }

StoreKey == derive_key_from_password(P_p, 0).val

StoreEntries == { SecretEntry_new(encrypt(StoreKey, S_x, 0).val, 0) }

StoreLeases == { Lease_new(d, 0) : d \in {0, 1} }

StoreNames == ValidNames \cup {S_ab}

StoreRecords ==
    { [secrets       |-> sm,
       lease_manager |-> [leases |-> lm],
       created_at    |-> 0,
       version       |-> "0.1.0"] :
      sm \in PartialMaps(StoreNames, StoreEntries), lm \in PartialMaps(StoreNames, StoreLeases) }

InitStore ==
    /\ now = 0
    /\ identityFile = Some(identity_to_string(Identity_new(P_p, 0, 0, 0)))
    /\ vaultFile \in { Some(ron_to_string(d)) : d \in StoreRecords }
    /\ vault = [s \in Sessions |-> None]
    /\ ret = NoCall
    /\ stored = EmptyMap
    /\ expiry = EmptyMap
    /\ hist = NoHist
    /\ box = NoBox

NextStore ==
    \/ \E s \in SeqSessions, pw \in Passwords : Load(s, pw)
    \/ \E s \in SeqSessions, n \in ValidNames : GetSecret(s, n)
    \/ \E s \in SeqSessions : ListSecrets(s)
    \/ \E s \in SeqSessions, n \in ValidNames, w \in WriteOutcomes : RemoveSecret(s, n, w)
    \/ \E s \in SeqSessions : Exit(s)
    \/ Tick

SpecStore == InitStore /\ [][NextStore]_vars

(* -------------------------- concurrent sessions -------------------------- *)

\* the vault records two concurrent sessions may find: entries of the key of P_p,
\* with or without a lease
ConcRecords ==
    { d \in StoreRecords :
        /\ DOMAIN d.secrets \subseteq ValidNames
        /\ DOMAIN d.lease_manager.leases \subseteq DOMAIN d.secrets
        /\ \A n \in DOMAIN d.lease_manager.leases : d.lease_manager.leases[n].expires_at = 1 }

InitConc ==
    /\ now = 0
    /\ identityFile = Some(identity_to_string(Identity_new(P_p, 0, 0, 0)))
    /\ vaultFile \in { Some(ron_to_string(d)) : d \in ConcRecords }
    /\ vault = [s \in Sessions |-> None]
    /\ ret = NoCall
    /\ stored = EmptyMap
    /\ expiry = EmptyMap
    /\ hist = NoHist
    /\ box = NoBox

\* a process starts and calls Vault::load while another process may be running:
\* nothing in load or save locks the store
ConcLoad(s, password) ==
    /\ LoadStep(s, password)
    /\ hist' = IF vault'[s] # None
               THEN [hist EXCEPT ![s] = [loaded |-> Some(ron_from_str(vaultFile[1]).val),
                                         mut    |-> None]]
               ELSE hist

\* two processes, each making one mutating call
NextConc ==
    \/ \E s \in Sessions, pw \in Passwords : ConcLoad(s, pw)
    \/ \E s \in Sessions, n \in ValidNames, v \in ValidValues, r \in Nonces, w \in WriteOutcomes :
          hist[s].mut = None /\ AddSecret(s, n, v, r, w)
    \/ \E s \in Sessions, n \in ValidNames, w \in WriteOutcomes :
          hist[s].mut = None /\ RemoveSecret(s, n, w)
    \/ \E s \in Sessions, n \in ValidNames, d \in ValidDurationTexts, w \in WriteOutcomes :
          hist[s].mut = None /\ SetExpiry(s, n, d, w)

SpecConc == InitConc /\ [][NextConc]_vars

(* ------------------------- the engine on its own ------------------------- *)

\* the keys of the engines
Keys ==
    { derive_key_from_password(P_p, 0).val, derive_key_from_password(P_q, 0).val,
      derive_key_from_password(P_p, 1).val }

\* the plaintexts: "", "x", "\u{e9}", "\u{20ac}x", "\u{1f600}"
Plaintexts == { S_empty, S_x, <<233>>, <<8364, 120>>, <<128512>> }

NonceDraws == {0, 1}

\* the bits of a byte that are flipped
FlipBits == {0, 7}

flip_bit(b, k) == IF (b \div (2 ^ k)) % 2 = 1 THEN b - 2 ^ k ELSE b + 2 ^ k

\* a tag some of whose bytes are not those of the tag it was
garbled(tag) == <<tag[1], tag[2], Append(tag[3], 256)>>

\* a ciphertext vector cut to its first m bytes: the last TagLen bytes that are
\* left are read as the tag
cut_ciphertext(ct, m) ==
    IF m < TagLen THEN Ciphertext(<<>>, None)
    ELSE Ciphertext(SubSeq(ct.body, 1, m - TagLen), Some(garbled(ct.tag[1])))

\* engine.encrypt(p) on an engine built from key
Encrypt(key, p, r) ==
    /\ box' = [key |-> Some(key), plaintext |-> Some(p), data |-> Some(encrypt(key, p, r).val),
               tampered |-> FALSE, reader |-> None]
    /\ ret' = Call("encrypt", 0, <<>>, Ok(Unit))
    /\ UNCHANGED <<now, identityFile, vaultFile, vault, stored, expiry, hist>>

\* engine.decrypt(data) on an engine built from key
Decrypt(key) ==
    /\ box.data # None
    /\ box' = [box EXCEPT !.reader = Some(key)]
    /\ ret' = Call("decrypt", 0, <<>>, decrypt(key, box.data[1]))
    /\ UNCHANGED <<now, identityFile, vaultFile, vault, stored, expiry, hist>>

\* the EncryptedData is altered once on its way
Tamper(data) ==
    /\ box.data # None /\ box.data[1].ciphertext.tag # None /\ ~box.tampered
    /\ box' = [box EXCEPT !.data = Some(data), !.tampered = TRUE]
    /\ ret' = NoCall
    /\ UNCHANGED <<now, identityFile, vaultFile, vault, stored, expiry, hist>>

\* the number of masked bytes on their way
BodyLen == IF box.data = None THEN 0 ELSE Len(box.data[1].ciphertext.body)

\* a bit of byte i of the ciphertext vector is flipped: a masked byte or, past
\* them, a byte of the tag
FlipCiphertext(i, k) ==
    LET d == box.data[1]
    IN  /\ box.data # None
        /\ i \in 1..(Len(d.ciphertext.body) + 1)
        /\ Tamper(IF i <= Len(d.ciphertext.body)
                  THEN [d EXCEPT !.ciphertext.body[i] = flip_bit(@, k)]
                  ELSE [d EXCEPT !.ciphertext.tag = Some(garbled(@[1]))])

FlipNonce(i, k) ==
    /\ box.data # None
    /\ Tamper([box.data[1] EXCEPT !.nonce[i] = flip_bit(@, k)])

\* the ciphertext loses its last cut bytes
TruncateCiphertext(cut) ==
    LET d == box.data[1]
    IN  /\ box.data # None
        /\ d.ciphertext.tag # None
        /\ cut \in 1..(Len(d.ciphertext.body) + TagLen)
        /\ Tamper([d EXCEPT !.ciphertext =
                               cut_ciphertext(@, Len(d.ciphertext.body) + TagLen - cut)])

\* the nonce loses its last cut bytes
TruncateNonce(cut) ==
    /\ box.data # None
    /\ Tamper([box.data[1] EXCEPT !.nonce = SubSeq(@, 1, NonceLen - cut)])

NextCrypto ==
    \/ \E key \in Keys, p \in Plaintexts, r \in NonceDraws : Encrypt(key, p, r)
    \/ \E key \in Keys : Decrypt(key)
    \/ \E i \in 1..(BodyLen + 1), k \in FlipBits : FlipCiphertext(i, k)
    \/ \E i \in 1..NonceLen, k \in FlipBits : FlipNonce(i, k)
    \/ \E cut \in {1, TagLen, TagLen + 1} : TruncateCiphertext(cut)
    \/ \E cut \in {1, NonceLen} : TruncateNonce(cut)

SpecCrypto == Init /\ [][NextCrypto]_vars

(* ------------------------------ properties ------------------------------ *)

\* the instance and the aggregate of the session of the last call
Inst == vault[ret.s][1]

Mem == Inst.data

MemLeases == Mem.lease_manager.leases

\* the aggregate the vault file deserializes to
Disk == ron_from_str(vaultFile[1]).val

\* name n has a lease in aggregate d that has passed at time t
LeasePassed(d, n, t) ==
    n \in DOMAIN d.lease_manager.leases /\ t > d.lease_manager.leases[n].expires_at

ValidCall(op) == ret.op = op /\ sanitize_secret_name(ret.name).ok

\* a result is Ok(x)
IsOk(r, x) == r.ok /\ r.val = x

\* the step is a call of op by a session on a valid name: every call leaves its
\* name and result in ret
ValidStep(op) == ret'.op = op /\ sanitize_secret_name(ret'.name).ok

\* C1: right after add_secret(n, v) returns successfully, get_secret(n) on the
\* same instance returns v, whatever lease n has
C1_AddThenGet ==
    (ret.op = "add_secret" /\ ret.res.ok) =>
        get_secret(Inst, ret.name, now) = Ok(Some(stored[ret.name]))

\* C2: get_secret(n) returns absent exactly when n has no secret entry or its
\* lease has passed at the time of the call; otherwise it returns the plaintext
\* stored last under n
C2_GetSecret ==
    ValidCall("get_secret") =>
        /\ ret.res.ok
        /\ (ret.res.val = None) <=>
              (ret.name \notin DOMAIN Mem.secrets \/ LeasePassed(Mem, ret.name, now))
        /\ (ret.res.val # None) => (ret.res.val = Some(stored[ret.name]))

C2_Witness ==
    /\ ValidCall("get_secret")
    /\ ret.name \in DOMAIN MemLeases
    /\ MemLeases[ret.name].expires_at = now
    /\ IsOk(ret.res, Some(S_y))

\* C3: once the clock has passed the expiry set by a successful set_expiry(n, d)
\* and nothing changed n since, get_secret(n) returns absent and list_secrets
\* omits n, in the same session and in the sessions loaded later
C3_ExpiredIsGone ==
    \A n \in DOMAIN expiry :
        now > expiry[n] =>
            /\ (ret.op = "get_secret" /\ ret.name = n) => IsOk(ret.res, None)
            /\ (ret.op = "list_secrets") =>
                  ret.res.ok /\ \A i \in 1..Len(ret.res.val) : ret.res.val[i][1] # n

\* a later session, where the sweep of load took the lease, is asked for n
C3_Witness ==
    /\ ret.op = "get_secret"
    /\ ret.name \in DOMAIN expiry
    /\ now > expiry[ret.name]
    /\ ret.name \notin DOMAIN MemLeases
    /\ ret.name \in DOMAIN Disk.secrets

\* C4: the instance load returns holds neither the lease nor the secret entry of
\* a name whose lease had passed at load time (a passed lease without a secret
\* entry is dropped without error), and every other secret entry and lease of
\* the persisted aggregate unchanged
C4_LoadSweep ==
    (ret.op = "load" /\ ret.res.ok) =>
        LET passed == { n \in DOMAIN Disk.lease_manager.leases : LeasePassed(Disk, n, now) }
        IN  /\ DOMAIN Mem.secrets = (DOMAIN Disk.secrets) \ passed
            /\ DOMAIN MemLeases = (DOMAIN Disk.lease_manager.leases) \ passed
            /\ \A n \in DOMAIN Mem.secrets : Mem.secrets[n] = Disk.secrets[n]
            /\ \A n \in DOMAIN MemLeases : MemLeases[n] = Disk.lease_manager.leases[n]
            /\ Mem.created_at = Disk.created_at
            /\ Mem.version = Disk.version

\* load swept a passed lease that had no secret entry, and one that had,
\* and kept a secret entry
C4_Witness ==
    /\ ret.op = "load" /\ ret.res.ok
    /\ \E n \in DOMAIN Disk.lease_manager.leases :
          LeasePassed(Disk, n, now) /\ n \notin DOMAIN Disk.secrets
    /\ \E n \in DOMAIN Disk.lease_manager.leases :
          LeasePassed(Disk, n, now) /\ n \in DOMAIN Disk.secrets
    /\ \E n \in DOMAIN Disk.secrets : ~LeasePassed(Disk, n, now)

\* the names list_secrets shows: a secret entry, and no lease or a lease not passed
Listed(d, t) == { n \in DOMAIN d.secrets : ~LeasePassed(d, n, t) }

ExpiryOf(d, n) ==
    IF n \in DOMAIN d.lease_manager.leases
    THEN Some(d.lease_manager.leases[n].expires_at)
    ELSE None

\* C5: list_secrets returns without error exactly one pair (name, expiry) for each
\* secret entry whose lease, if any, has not passed, the expiry being the lease's
\* expires_at or absent, in ascending order of name; the others are omitted
C5_ListSecrets ==
    ret.op = "list_secrets" =>
        /\ ret.res.ok
        /\ LET L == ret.res.val
           IN  /\ Len(L) = Cardinality(Listed(Mem, now))
               /\ { L[i] : i \in 1..Len(L) } = { <<n, ExpiryOf(Mem, n)>> : n \in Listed(Mem, now) }
               /\ \A i \in 1..Len(L), j \in 1..Len(L) : i < j => str_lt(L[i][1], L[j][1])

\* a listing that shows one name with its expiry and omits a name whose lease has passed
C5_Witness ==
    /\ ret.op = "list_secrets"
    /\ Len(ret.res.val) = 1
    /\ ret.res.val[1][2] # None
    /\ \E n \in DOMAIN Mem.secrets : LeasePassed(Mem, n, now)

\* the entries and leases of the names other than n are the same in aggregates d and e
SameOthers(d, e, n) ==
    /\ (DOMAIN d.secrets) \ {n} = (DOMAIN e.secrets) \ {n}
    /\ \A m \in (DOMAIN d.secrets) \ {n} : d.secrets[m] = e.secrets[m]
    /\ (DOMAIN d.lease_manager.leases) \ {n} = (DOMAIN e.lease_manager.leases) \ {n}
    /\ \A m \in (DOMAIN d.lease_manager.leases) \ {n} :
          d.lease_manager.leases[m] = e.lease_manager.leases[m]

\* C6: remove_secret(n) on a name with a secret entry returns true; afterwards the
\* instance and the persisted record hold neither a secret entry nor a lease of
\* n, and the entries and leases of the other names are as before
C6_RemoveStep ==
    (ValidStep("remove_secret") /\ ret'.name \in DOMAIN vault[ret'.s][1].data.secrets) =>
        LET n   == ret'.name
            old == vault[ret'.s][1].data
            new == vault'[ret'.s][1].data
            dsk == ron_from_str(vaultFile'[1])
        IN  /\ IsOk(ret'.res, TRUE)
            /\ n \notin DOMAIN new.secrets
            /\ n \notin DOMAIN new.lease_manager.leases
            /\ dsk.ok
            /\ n \notin DOMAIN dsk.val.secrets
            /\ n \notin DOMAIN dsk.val.lease_manager.leases
            /\ SameOthers(old, new, n)
            /\ SameOthers(new, dsk.val, n)

C6_Remove == [][C6_RemoveStep]_vars

\* a name was removed while another name keeps its entry and lease
C6_Witness ==
    /\ ret.op = "remove_secret" /\ IsOk(ret.res, TRUE)
    /\ \E m \in DOMAIN Mem.secrets : m \in DOMAIN MemLeases

\* C7: remove_secret(n) on a name without a secret entry returns false, writes
\* nothing to the vault file and leaves the secrets of the instance as they
\* were; so does a second remove_secret(n) right after a successful one
C7_RemoveAbsentStep ==
    /\ (ValidStep("remove_secret") /\ ret'.name \notin DOMAIN vault[ret'.s][1].data.secrets) =>
          /\ IsOk(ret'.res, FALSE)
          /\ vaultFile' = vaultFile
          /\ vault'[ret'.s][1].data.secrets = vault[ret'.s][1].data.secrets
    /\ (ValidStep("remove_secret") /\ ret.op = "remove_secret" /\ ret.s = ret'.s
          /\ ret.name = ret'.name /\ IsOk(ret.res, TRUE)) =>
          IsOk(ret'.res, FALSE)

C7_RemoveAbsent == [][C7_RemoveAbsentStep]_vars

\* remove_secret returned false in an instance whose aggregate differs from the file
C7_Witness ==
    /\ ValidCall("remove_secret")
    /\ IsOk(ret.res, FALSE)
    /\ Mem # Disk
    /\ Mem.secrets # EmptyMap

\* C8: set_expiry(n, d) on a name with a secret entry and a well-formed d sets the
\* lease of n to expire at the current time plus d, whatever lease n had,
\* persists the aggregate and leaves the secret entries and the leases of the
\* other names as they were
C8_SetExpiryStep ==
    \A d \in DurationTexts :
        (/\ ValidStep("set_expiry")
         /\ SetExpiry(ret'.s, ret'.name, d, "ok")
         /\ ret'.name \in DOMAIN vault[ret'.s][1].data.secrets
         /\ parse_duration(d).ok) =>
            LET n   == ret'.name
                old == vault[ret'.s][1].data
                new == vault'[ret'.s][1].data
            IN  /\ IsOk(ret'.res, Unit)
                /\ n \in DOMAIN new.lease_manager.leases
                /\ new.lease_manager.leases[n].expires_at = now + parse_duration(d).val
                /\ new.secrets = old.secrets
                /\ SameOthers(old, new, n)
                /\ vaultFile' = Some(ron_to_string(new))
                /\ ron_from_str(vaultFile'[1]) = Ok(new)

C8_SetExpiry == [][C8_SetExpiryStep]_vars

\* a lease was set at a time when the name had an earlier lease on file, and
\* another name has a lease
C8_Witness ==
    /\ ret.op = "set_expiry" /\ ret.res.ok
    /\ now > 0
    /\ MemLeases[ret.name].created_at = now
    /\ Mem.secrets[ret.name].created_at < now
    /\ \E m \in DOMAIN MemLeases : m # ret.name

\* C9: a secret whose lease has passed is deleted for set_expiry: the call fails
\* with NotFound and the name stays unretrievable, with or without a load since
C9_ExpiredNotFoundStep ==
    (/\ ValidStep("set_expiry")
     /\ \/ LeasePassed(vault[ret'.s][1].data, ret'.name, now)
        \/ (ret'.name \in DOMAIN expiry /\ now > expiry[ret'.name])) =>
        /\ ~ret'.res.ok
        /\ ret'.res.val = "NotFound"
        /\ LET g == get_secret(vault'[ret'.s][1], ret'.name, now')
           IN  IsOk(g, None)

C9_ExpiredNotFound == [][C9_ExpiredNotFoundStep]_vars

\* C10: when add_secret, set_expiry or a remove_secret returning true has
\* completed, the vault file deserializes to exactly the aggregate of the instance
C10_PersistedEqualsMemory ==
    (\/ (ret.op \in {"add_secret", "set_expiry"} /\ ret.res.ok)
     \/ (ret.op = "remove_secret" /\ IsOk(ret.res, TRUE))) =>
        /\ vaultFile # None
        /\ ron_from_str(vaultFile[1]) = Ok(Mem)

\* a mutation was saved by a session whose load had swept a name off the instance
C10_Witness ==
    /\ ret.op = "set_expiry" /\ ret.res.ok
    /\ \E n \in DOMAIN expiry :
          n # ret.name /\ now > expiry[n] /\ n \notin DOMAIN Mem.secrets

\* C11: when load returns an instance, the vault file deserializes to exactly
\* the aggregate of that instance: the names the sweep removed are gone from the
\* persisted record too
C11_SweepPersisted ==
    (ret.op = "load" /\ ret.res.ok) =>
        /\ vaultFile # None
        /\ ron_from_str(vaultFile[1]) = Ok(Mem)

\* the step returned an error and changed neither an instance nor the vault file
Rejected == ~ret'.res.ok /\ vault' = vault /\ vaultFile' = vaultFile

\* C12: a call that fails validation returns an error and changes nothing:
\* add_secret with an invalid name or an invalid value, set_expiry with an invalid
\* name, a name that has no entry or a malformed duration, remove_secret and
\* get_secret with an invalid name leave the in-memory aggregate and the vault
\* file as they were
C12_RejectedStep ==
    /\ (ret'.op \in {"add_secret", "set_expiry", "remove_secret", "get_secret"}
          /\ ~sanitize_secret_name(ret'.name).ok) => Rejected
    /\ \A v \in Values \ ValidValues, r \in Nonces :
          (ValidStep("add_secret") /\ AddSecret(ret'.s, ret'.name, v, r, "ok")) => Rejected
    /\ (ValidStep("set_expiry") /\ ret'.name \notin DOMAIN vault[ret'.s][1].data.secrets)
          => (Rejected /\ ret'.res.val = "NotFound")
    /\ \A d \in DurationTexts \ ValidDurationTexts :
          (ValidStep("set_expiry") /\ SetExpiry(ret'.s, ret'.name, d, "ok")) => Rejected

C12_Rejected == [][C12_RejectedStep]_vars

\* add_secret was refused for its value on an instance that holds a secret with
\* a lease
C12_Witness ==
    /\ ValidCall("add_secret") /\ ~ret.res.ok
    /\ ret.name \in DOMAIN Mem.secrets
    /\ ret.name \in DOMAIN MemLeases
    /\ Mem = Disk

\* C13: a process that dies in the save of a mutating operation or of init
\* leaves the vault file as it was or holding a complete aggregate, never a
\* part of one, so that the next load can deserialize it
C13_AtomicSaveStep ==
    Killed(ret'.res) =>
        \/ vaultFile' = vaultFile
        \/ vaultFile' # None /\ ron_from_str(vaultFile'[1]).ok

C13_AtomicSave == [][C13_AtomicSaveStep]_vars

\* the write of the step failed: only save returns an IOError
WriteFailed == ~ret'.res.ok /\ ret'.res.val = "IOError"

\* C14: when the write fails inside add_secret, set_expiry or remove_secret, the
\* call returns the error, the instance keeps the mutation it had made (the new
\* entry, the new lease, the removal) and the vault file is left as it was before
\* the call, holding the aggregate saved last
C14_FailedWriteStep ==
    (ret'.op \in {"add_secret", "set_expiry", "remove_secret"} /\ WriteFailed) =>
        LET n   == ret'.name
            new == vault'[ret'.s][1].data
        IN  /\ ret'.op = "add_secret" =>
                  n \in DOMAIN new.secrets /\ new.secrets[n].created_at = now
            /\ ret'.op = "set_expiry" =>
                  /\ n \in DOMAIN new.lease_manager.leases
                  /\ new.lease_manager.leases[n].created_at = now
            /\ ret'.op = "remove_secret" =>
                  n \notin DOMAIN new.secrets /\ n \notin DOMAIN new.lease_manager.leases
            /\ vaultFile' = vaultFile

C14_FailedWrite == [][C14_FailedWriteStep]_vars

\* what aggregate d holds of name n: its secret entry and its lease
View(d, n) ==
    << IF n \in DOMAIN d.secrets THEN Some(d.secrets[n]) ELSE None,
       IF n \in DOMAIN d.lease_manager.leases THEN Some(d.lease_manager.leases[n]) ELSE None >>

\* sessions s and t loaded the same persisted aggregate and each saved one
\* mutation since, on different names, s last
BothMutated(s, t) ==
    /\ s # t
    /\ hist[s].loaded # None /\ hist[t].loaded = hist[s].loaded
    /\ hist[s].mut # None /\ hist[t].mut # None
    /\ hist[s].mut[1][2] # hist[t].mut[1][2]
    /\ ret.s = s /\ ret.op = hist[s].mut[1][1] /\ ret.name = hist[s].mut[1][2]

\* C15: when two sessions have loaded the same persisted aggregate and each has
\* made one successful mutation on a name of its own, the vault file holds the
\* aggregate of the session that saved last, and of the name the other session
\* mutated it holds what both had loaded: the other mutation is not in storage
C15_LastWriterWins ==
    \A s \in Sessions, t \in Sessions :
        BothMutated(s, t) =>
            /\ vaultFile # None
            /\ ron_from_str(vaultFile[1]) = Ok(vault[s][1].data)
            /\ View(Disk, hist[t].mut[1][2]) = View(hist[t].loaded[1], hist[t].mut[1][2])

\* the session that saved first holds an entry that storage has lost
C15_Witness ==
    \E s \in Sessions, t \in Sessions :
        /\ BothMutated(s, t)
        /\ hist[t].mut[1][1] = "add_secret"
        /\ hist[s].mut[1][1] = "set_expiry"
        /\ View(vault[t][1].data, hist[t].mut[1][2]) # View(Disk, hist[t].mut[1][2])

\* C16: init on a store that has an identity file fails with AlreadyInitialized
\* and changes neither file; init on a store without one, with a password of at
\* least 8 characters typed twice, succeeds and leaves an identity that verifies
\* the password and a vault record with no secrets and no leases
C16_InitStep ==
    ret'.op = "init" =>
        /\ identityFile # None =>
              /\ ~ret'.res.ok /\ ret'.res.val = "AlreadyInitialized"
              /\ identityFile' = identityFile
              /\ vaultFile' = vaultFile
        /\ \A pw \in NewPasswords, r1 \in Salts, r2 \in Salts :
              (identityFile = None /\ Len(pw) >= 8 /\ VaultInit(pw, pw, r1, r2, "ok", "ok")) =>
                  /\ ret'.res.ok
                  /\ identityFile' # None
                  /\ identity_from_str(identityFile'[1]).ok
                  /\ Identity_verify_password(identity_from_str(identityFile'[1]).val, pw).val
                  /\ vaultFile' # None
                  /\ ron_from_str(vaultFile'[1]).ok
                  /\ ron_from_str(vaultFile'[1]).val.secrets = EmptyMap
                  /\ ron_from_str(vaultFile'[1]).val.lease_manager.leases = EmptyMap

C16_Init == [][C16_InitStep]_vars

\* init was refused on a store that holds a secret
C16_Witness ==
    /\ ret.op = "init" /\ ~ret.res.ok /\ ret.res.val = "AlreadyInitialized"
    /\ vaultFile # None
    /\ Disk.secrets # EmptyMap

\* C17: the identity that init creates with password p verifies p and no other
\* password; derive_key and load succeed with p, derive_key fails with
\* InvalidCredentials and load yields no instance with any other password; load
\* on a store without an identity file fails with MissingVault
C17_AuthStep ==
    /\ \A pw \in NewPasswords, r1 \in Salts, r2 \in Salts :
          (ret'.op = "init" /\ ret'.res.ok /\ VaultInit(pw, pw, r1, r2, "ok", "ok")) =>
              LET id == identity_from_str(identityFile'[1]).val
              IN  \A q \in Passwords :
                     /\ Identity_verify_password(id, q).val <=> (q = pw)
                     /\ q = pw => derive_key(id, q) = derive_key_from_password(pw, id.salt)
                     /\ q # pw => derive_key(id, q) = Err("InvalidCredentials")
    /\ \A q \in Passwords :
          (ret'.op = "load" /\ identityFile # None /\ Load(ret'.s, q)) =>
              LET id  == identity_from_str(identityFile[1]).val
                  key == derive_key(id, q)
              IN  /\ ret'.res.ok <=> key.ok
                  /\ key.ok => vault'[ret'.s][1].crypto_engine = key.val
                  /\ ~key.ok => vault'[ret'.s] = None
    /\ (ret'.op = "load" /\ identityFile = None) =>
          /\ ~ret'.res.ok /\ ret'.res.val = "MissingVault"
          /\ vault'[ret'.s] = None

C17_Auth == [][C17_AuthStep]_vars

\* load was refused for a wrong password on a store that holds a secret
C17_Witness ==
    /\ ret.op = "load" /\ ~ret.res.ok /\ ret.res.val = "InvalidCredentials"
    /\ vaultFile # None
    /\ Disk.secrets # EmptyMap

\* C18: once the identity file is written, no command changes it
C18_IdentityWrittenOnce ==
    [][identityFile # None => identityFile' = identityFile]_vars

\* a session that holds a secret took a backup after the time of the init: the
\* backup carries the verifier of the identity file, which is the one init wrote
C18_Witness ==
    /\ ret.op = "create_backup" /\ ret.res.ok
    /\ Mem.secrets # EmptyMap
    /\ identity_from_str(identityFile[1]).val.created_at < now
    /\ ret.res.val.identity_hash = identity_from_str(identityFile[1]).val.password_hash

\* C19: decrypt with an engine of the key that encrypted returns exactly the
\* plaintext, for every plaintext, every key and every encryption of it
C19_RoundTrip ==
    (ret.op = "decrypt" /\ ~box.tampered /\ box.reader = box.key) =>
        (ret.res.ok /\ ret.res.val = box.plaintext[1])

\* a plaintext of a three-byte and a one-byte character came back from its
\* second encryption
C19_Witness ==
    /\ ret.op = "decrypt" /\ ~box.tampered /\ box.reader = box.key
    /\ box.plaintext = Some(<<8364, 120>>)
    /\ box.data[1].nonce[1] = 1
    /\ Len(box.data[1].ciphertext.body) = 4
    /\ ret.res.ok

\* C20: decrypt of an EncryptedData under another key, or after a bit of its
\* ciphertext or nonce was flipped, or after its ciphertext or nonce was cut
\* short, returns the error DecryptionError and no plaintext
C20_TamperDetected ==
    (ret.op = "decrypt" /\ (box.tampered \/ box.reader # box.key)) =>
        (~ret.res.ok /\ ret.res.val = "DecryptionError")

(* --------------------------- keys across sessions ------------------------ *)

\* the passwords and the salts a store may be initialized with
InitPasswords == {P_p, P_q}

InitSalts == {0, 1}

\* sessions that follow one another on a store of any password and salt
NextKey ==
    \/ \E pw \in InitPasswords, r1 \in Salts, r2 \in InitSalts, w1 \in WriteOutcomes, w2 \in WriteOutcomes :
          VaultInit(pw, pw, r1, r2, w1, w2)
    \/ \E s \in SeqSessions, pw \in Passwords : Load(s, pw)
    \/ \E s \in SeqSessions, n \in OneName, v \in ValidValues, r \in Nonces, w \in WriteOutcomes :
          AddSecret(s, n, v, r, w)
    \/ \E s \in SeqSessions, n \in OneName : GetSecret(s, n)
    \/ \E s \in SeqSessions : Exit(s)
    \/ Tick

SpecKey == Init /\ [][NextKey]_vars

\* the key under which a secret entry was encrypted
SealKey(entry) == entry.encrypted_value.ciphertext.tag[1][1]

\* the identity record on disk
IdentityOnDisk == identity_from_str(identityFile[1]).val

\* C21: derive_key_from_password gives the same key on every call with the same
\* password and salt: the engine key of every loaded instance is the key derived
\* from the password the store was initialized with and the stored salt, and it
\* is the key under which every secret entry, in memory and on disk, was encrypted
C21_KeyDeterminism ==
    \A s \in Sessions :
        vault[s] # None =>
            /\ Identity_verify_password(IdentityOnDisk, vault[s][1].crypto_engine.password).val
            /\ vault[s][1].crypto_engine.salt = IdentityOnDisk.salt
            /\ \A n \in DOMAIN vault[s][1].data.secrets :
                  SealKey(vault[s][1].data.secrets[n]) = vault[s][1].crypto_engine
            /\ \A n \in DOMAIN Disk.secrets :
                  SealKey(Disk.secrets[n]) = vault[s][1].crypto_engine

\* a later session has loaded, on a store of the second salt, a secret that an
\* earlier session encrypted
C21_Witness ==
    /\ ret.op = "load" /\ ret.res.ok
    /\ IdentityOnDisk.salt = 1
    /\ S_a \in DOMAIN Mem.secrets
    /\ Mem.secrets[S_a].created_at < now
    /\ SealKey(Mem.secrets[S_a]) = Inst.crypto_engine

(* ----------------------------- duration texts ---------------------------- *)

\* the decimal digits of a natural number
RECURSIVE decimal(_)
decimal(n) == IF n < 10 THEN <<48 + n>> ELSE decimal(n \div 10) \o <<48 + (n % 10)>>

\* the unit spellings of the duration grammar with their seconds:
\* s sec seconds, m min minutes, h hour hours, d day days, w week weeks
DurationUnits ==
    { << <<115>>, 1 >>, << <<115, 101, 99>>, 1 >>,
      << <<115, 101, 99, 111, 110, 100, 115>>, 1 >>,
      << <<109>>, 60 >>, << <<109, 105, 110>>, 60 >>,
      << <<109, 105, 110, 117, 116, 101, 115>>, 60 >>,
      << <<104>>, 3600 >>, << <<104, 111, 117, 114>>, 3600 >>,
      << <<104, 111, 117, 114, 115>>, 3600 >>,
      << <<100>>, 86400 >>, << <<100, 97, 121>>, 86400 >>,
      << <<100, 97, 121, 115>>, 86400 >>,
      << <<119>>, 604800 >>, << <<119, 101, 101, 107>>, 604800 >>,
      << <<119, 101, 101, 107, 115>>, 604800 >> }

\* the magnitudes typed
Magnitudes == {1, 2, 10}

\* the letter cases a unit is typed in: lower, upper, capitalized
Cased(u) == { u, to_uppercase(u), <<upper_char(Head(u))>> \o Tail(u) }

\* the texts of the duration grammar: a magnitude, then a unit
GrammarTexts ==
    { decimal(n) \o c : n \in Magnitudes, c \in UNION { Cased(u[1]) : u \in DurationUnits } }

\* texts outside the grammar: "", "10", "10x", "0s", "-5m", "1.5h", "abc", "h"
RejectedDurationTexts ==
    { <<>>, <<49, 48>>, <<49, 48, 120>>, <<48, 115>>, <<45, 53, 109>>,
      <<49, 46, 53, 104>>, <<97, 98, 99>>, <<104>> }

AllDurationTexts == GrammarTexts \cup RejectedDurationTexts

\* parse_duration is called on a text
ParseDuration(text) ==
    /\ ret' = Call("parse_duration", 0, text, parse_duration(text))
    /\ UNCHANGED <<now, identityFile, vaultFile, vault, stored, expiry, hist, box>>

\* parse_duration called on every text
NextDuration == \E d \in AllDurationTexts : ParseDuration(d)

SpecDuration == Init /\ [][NextDuration]_vars

\* the program with the texts outside the grammar, and one inside it, typed at
\* set_expiry, and parse_duration called on the same texts
NextRejectedDuration ==
    \/ \E r1 \in Salts, r2 \in Salts, w1 \in WriteOutcomes, w2 \in WriteOutcomes :
          VaultInit(P_p, P_p, r1, r2, w1, w2)
    \/ \E s \in SeqSessions : Load(s, P_p)
    \/ \E s \in SeqSessions, n \in OneName, v \in OneValue, r \in Nonces, w \in WriteOutcomes :
          AddSecret(s, n, v, r, w)
    \/ \E s \in SeqSessions, n \in OneName, d \in RejectedDurationTexts \cup {D_1s}, w \in WriteOutcomes :
          SetExpiry(s, n, d, w)
    \/ \E d \in RejectedDurationTexts \cup {D_1s} : ParseDuration(d)
    \/ \E s \in SeqSessions : Exit(s)
    \/ Tick

SpecRejectedDuration == Init /\ [][NextRejectedDuration]_vars

\* C22: for every positive magnitude n and every unit spelling of the grammar, in
\* any letter case, parse_duration of n followed by the unit succeeds and returns
\* n times the seconds of the unit
C22_GrammarAccepted ==
    \A n \in Magnitudes, u \in DurationUnits :
        (ret.op = "parse_duration" /\ ret.name \in { decimal(n) \o c : c \in Cased(u[1]) }) =>
            (ret.res.ok /\ ret.res.val = n * u[2])

\* C23, on the calls of parse_duration: a text outside the grammar is rejected
\* with an error value
C23_ParseRejects ==
    (ret.op = "parse_duration" /\ ret.name \in RejectedDurationTexts) =>
        (~ret.res.ok /\ ret.res.val = "ValidationError")

\* C23, on the steps of set_expiry: called with a text outside the grammar for a
\* name that has a secret entry, it returns the error and creates no lease, in
\* memory or on disk
C23_SetExpiryStep ==
    \A s \in SeqSessions, n \in OneName, d \in RejectedDurationTexts :
        (/\ vault[s] # None
         /\ n \in DOMAIN vault[s][1].data.secrets
         /\ SetExpiry(s, n, d, "ok")) =>
            /\ ~ret'.res.ok /\ ret'.res.val = "ValidationError"
            /\ vault' = vault
            /\ vaultFile' = vaultFile

NameTexts ==
    { <<c>> : c \in 32..126 }
        \cup { <<97, c>> : c \in {0, 1, 9, 10, 31, 127, 128, 159, 160, 173} }
        \cup UNION { { <<c, 97, 98>>, <<97, c, 98>>, <<97, 98, c>> } :
                     c \in {47, 92, 58, 42, 63, 34, 60, 62, 124} }
        \cup UNION { { r, to_lowercase(r), <<Head(r)>> \o to_lowercase(Tail(r)),
                       r \o <<49>>, <<95>> \o r } : r \in reserved_names }
        \cup { Repeat(c, n) : c \in {97, 233, 8364}, n \in {0, 85, 86, 127, 128, 255, 256} }
        \cup Names

\* sanitize_secret_name is called on a name
SanitizeName(name) ==
    /\ ret' = Call("sanitize_secret_name", 0, name, sanitize_secret_name(name))
    /\ UNCHANGED <<now, identityFile, vaultFile, vault, stored, expiry, hist, box>>

NextNames == \E n \in NameTexts : SanitizeName(n)

SpecNames == Init /\ [][NextNames]_vars

\* a name that is non-empty, of at most 255 characters, without a control
\* character or one of / \ : * ? " < > | and not a reserved name in any letter case
AcceptableName(name) ==
    /\ name # <<>>
    /\ Len(name) <= 255
    /\ \A i \in 1..Len(name) :
          ~is_control(name[i]) /\ name[i] \notin {47, 92, 58, 42, 63, 34, 60, 62, 124}
    /\ to_lowercase(name) \notin { to_lowercase(r) : r \in reserved_names }

\* C24: sanitize_secret_name(name) succeeds and returns name unchanged exactly
\* when name is non-empty, has at most 255 characters, has no control character
\* and none of / \ : * ? " < > | and is not a reserved name in any letter case;
\* otherwise it fails with a validation error
C24_Sanitize ==
    (ret.op = "sanitize_secret_name") =>
        IF AcceptableName(ret.name)
        THEN ret.res.ok /\ ret.res.val = ret.name
        ELSE ~ret.res.ok /\ ret.res.val = "ValidationError"

(* ------------------------------ value texts ------------------------------ *)

\* the values typed: the empty value, every one-character value of ASCII, values
\* with a null character, and runs of a one-, two-, three- and four-byte
\* character around the limit in characters and in bytes
ValueTexts ==
    {S_empty}
        \cup { <<c>> : c \in 1..127 }
        \cup { <<0>>, <<120, 0>>, <<0, 120>>, <<120, 0, 120>> }
        \cup { Repeat(120, n) : n \in {9999, 10000, 10001} }
        \cup { Repeat(233, n) : n \in {5000, 5001, 10000, 10001} }
        \cup { Repeat(8364, n) : n \in {3333, 3334} }
        \cup { Repeat(128512, n) : n \in {2500, 2501} }

\* validate_secret_value is called on a value
ValidateValue(value) ==
    /\ ret' = Call("validate_secret_value", 0, value, validate_secret_value(value))
    /\ UNCHANGED <<now, identityFile, vaultFile, vault, stored, expiry, hist, box>>

NextValues == \E v \in ValueTexts : ValidateValue(v)

SpecValues == Init /\ [][NextValues]_vars

\* a value that is non-empty, of at most 10,000 characters, without a null
\* character
AcceptableValue(value) ==
    /\ value # <<>>
    /\ Len(value) <= 10000
    /\ \A i \in 1..Len(value) : value[i] # 0

\* C25: validate_secret_value(value) succeeds exactly when value is non-empty,
\* has at most 10,000 characters, a character of several bytes counting once,
\* and has no null byte; otherwise it fails with a validation error
C25_Validate ==
    (ret.op = "validate_secret_value") =>
        IF AcceptableValue(ret.name)
        THEN ret.res.ok
        ELSE ~ret.res.ok /\ ret.res.val = "ValidationError"

(* ----------------------- the lease manager on its own -------------------- *)

\* the durations leases are built with, in seconds: negative, zero and positive
LeaseDurations == {0 - 1, 0, 1}

\* a store that was initialized, and the session that has loaded it: its
\* LeaseManager is used on its own, as the tests of lease.rs use one
InitLease ==
    /\ now = 0
    /\ identityFile = Some(identity_to_string(Identity_new(P_p, 0, 0, 0)))
    /\ vaultFile = Some(ron_to_string(VaultData_default(0)))
    /\ vault = [s \in Sessions |->
                  IF s \in SeqSessions
                  THEN Some(load(identityFile, vaultFile, P_p, 0).val)
                  ELSE None]
    /\ ret = NoCall
    /\ stored = EmptyMap
    /\ expiry = EmptyMap
    /\ hist = NoHist
    /\ box = NoBox

\* the leases of the manager of session s
ManagerLeases(s) == vault[s][1].data.lease_manager.leases

\* manager.add_lease(name, duration); expiry remembers now + duration
AddLease(s, name, duration) ==
    /\ vault[s] # None
    /\ vault' = [vault EXCEPT ![s][1].data.lease_manager =
                    add_lease(@, name, duration, now)]
    /\ expiry' = map_insert(expiry, name, now + duration)
    /\ ret' = Call("add_lease", s, name, Ok(Unit))
    /\ UNCHANGED <<now, identityFile, vaultFile, stored, hist, box>>

\* manager.get_lease(name) and, on the lease found, lease.is_expired()
IsExpired(s, name) ==
    /\ vault[s] # None
    /\ get_lease(vault[s][1].data.lease_manager, name) # None
    /\ ret' = Call("is_expired", s, name,
                   Ok(is_expired(get_lease(vault[s][1].data.lease_manager, name)[1], now)))
    /\ UNCHANGED <<now, identityFile, vaultFile, vault, stored, expiry, hist, box>>

\* the orders in which a HashMap may iterate over the keys S
Orders(S) == { f \in [1..Cardinality(S) -> S] : \A x \in S : \E i \in DOMAIN f : f[i] = x }

\* manager.cleanup_expired(): the names come back in the order of the iteration
CleanupExpired(s) ==
    /\ vault[s] # None
    /\ LET c == cleanup_expired(vault[s][1].data.lease_manager, now)
       IN  /\ vault' = [vault EXCEPT ![s][1].data.lease_manager = c.lm]
           /\ \E order \in Orders(c.expired) :
                 ret' = Call("cleanup_expired", s, <<>>, Ok(order))
    /\ UNCHANGED <<now, identityFile, vaultFile, stored, expiry, hist, box>>

NextLease ==
    \/ \E s \in SeqSessions, n \in ValidNames, d \in LeaseDurations : AddLease(s, n, d)
    \/ \E s \in SeqSessions, n \in ValidNames : IsExpired(s, n)
    \/ \E s \in SeqSessions : CleanupExpired(s)
    \/ Tick

SpecLease == InitLease /\ [][NextLease]_vars

\* C26: a lease created at time t with duration d is expired at time now exactly
\* when now > t + d: one built with a negative duration is expired from the
\* moment it is created, one built with a positive duration is not expired at
\* any time up to and including t + d
C26_LeaseExpiry ==
    (ret.op = "is_expired") =>
        LET lease == ManagerLeases(ret.s)[ret.name]
            t     == lease.created_at
            due   == expiry[ret.name]
        IN  /\ ret.res.val = (now > due)
            /\ due < t => ret.res.val
            /\ (due > t /\ now <= due) => ~ret.res.val

\* a lease built after time 0 with a negative duration was found expired in the
\* second it was created
C26_Witness ==
    /\ ret.op = "is_expired" /\ ret.res.val
    /\ ManagerLeases(ret.s)[ret.name].created_at = now
    /\ now > 0
    /\ expiry[ret.name] < now

\* the names of the leases l that have passed at time t
Passed(l, t) == { n \in DOMAIN l : t > l[n].expires_at }

\* the names in a list
Listing(list) == { list[i] : i \in DOMAIN list }

\* C27, on the steps of cleanup_expired: it returns exactly the names whose lease
\* has passed, each once, removes exactly their leases and leaves every other
\* lease as it was; called again right after the first, it returns nothing
C27_CleanupStep ==
    (ret'.op = "cleanup_expired") =>
        LET s      == ret'.s
            before == ManagerLeases(s)
            left   == vault'[s][1].data.lease_manager.leases
            names  == ret'.res.val
        IN  /\ Listing(names) = Passed(before, now)
            /\ Len(names) = Cardinality(Passed(before, now))
            /\ DOMAIN left = (DOMAIN before) \ Passed(before, now)
            /\ \A n \in DOMAIN left : left[n] = before[n]
            /\ ret.op = "cleanup_expired" => names = <<>>

\* C27: cleanup_expired returns exactly the names whose lease is expired at the
\* time of the call, each once, removes exactly those leases from the manager
\* and leaves every other lease unchanged; a second cleanup_expired at the same
\* time returns an empty list
C27_Cleanup == [][C27_CleanupStep]_vars

\* both names had a lease that has passed, cleanup_expired has removed both, and
\* the call that returned last is a cleanup_expired that found nothing left
C27_Witness ==
    /\ ret.op = "cleanup_expired"
    /\ ret.res.val = <<>>
    /\ ManagerLeases(ret.s) = EmptyMap
    /\ DOMAIN expiry = ValidNames
    /\ \A n \in ValidNames : expiry[n] < now

\* every name that has a lease in aggregate d has a secret entry in it
NoOrphan(d) == DOMAIN d.lease_manager.leases \subseteq DOMAIN d.secrets

\* C28: the vault's own operations create no orphaned lease: from the empty vault
\* written by init, after any sequence of load, add_secret, set_expiry and
\* remove_secret, successful or failing on validation, every name that has a
\* lease in memory has a secret entry, and so has every name that has a lease in
\* the persisted record
C28_NoOrphanLease ==
    /\ \A s \in Sessions : vault[s] # None => NoOrphan(vault[s][1].data)
    /\ vaultFile # None => NoOrphan(Disk)

\* set_expiry was refused for a name without a secret entry while another name
\* has its lease, in memory and on disk
C28_Witness ==
    /\ ret.op = "set_expiry" /\ ~ret.res.ok /\ ret.res.val = "NotFound"
    /\ ret.name \notin DOMAIN Mem.secrets
    /\ MemLeases # EmptyMap
    /\ Disk.lease_manager.leases # EmptyMap

\* the operations that only read
ReadOps == {"get_secret", "list_secrets", "get_stats", "create_backup"}

\* no entry of aggregate d was ever marked as accessed
NeverAccessed(d) ==
    \A n \in DOMAIN d.secrets :
        d.secrets[n].access_count = 0 /\ d.secrets[n].last_accessed = None

\* C29, on the steps of the reading operations: get_secret, list_secrets,
\* get_stats and create_backup leave every instance and both files as they were
C29_ReadStep ==
    (ret'.op \in ReadOps) =>
        (vault' = vault /\ vaultFile' = vaultFile /\ identityFile' = identityFile)

\* C29, on the entries: every entry in memory and on disk has access_count 0 and
\* no last_accessed
C29_Untouched ==
    /\ \A s \in Sessions : vault[s] # None => NeverAccessed(vault[s][1].data)
    /\ vaultFile # None => NeverAccessed(Disk)

\* C29: reads do not mutate state: get_secret, list_secrets, get_stats and
\* create_backup change neither the aggregate in memory nor the persisted
\* record, and no operation changes access_count or last_accessed, so every
\* entry in memory and on disk has access_count 0 and last_accessed absent
C29_ReadsDoNotMutate == [](C29_Untouched) /\ [][C29_ReadStep]_vars

\* get_secret has returned the plaintext of an entry that was stored in an
\* earlier second, and the entry still counts no access in memory and on disk
C29_Witness ==
    /\ ret.op = "get_secret" /\ ret.res.ok /\ ret.res.val = Some(S_x)
    /\ Mem.secrets[ret.name].created_at < now
    /\ Mem.secrets[ret.name].access_count = 0
    /\ Disk.secrets[ret.name].last_accessed = None

\* C30: initialization is all or nothing: after any init call has returned, with
\* success or with an error, also after a failed write of the vault file or a
\* crash between the two writes, the identity record exists if and only if the
\* vault record exists, so the store is never left where init fails with
\* AlreadyInitialized while load fails because the vault file is missing
C30_InitAllOrNothing ==
    (ret.op = "init") =>
        /\ Identity_exists(identityFile) <=> (vaultFile # None)
        /\ ~(/\ Identity_exists(identityFile)
             /\ \E pw \in Passwords :
                   LET r == load(identityFile, vaultFile, pw, now)
                   IN  ~r.ok /\ r.val = "MissingVault")

(* ------------------------- the time left on a lease ---------------------- *)

\* manager.get_lease(name) and, on the lease found, lease.time_remaining()
TimeRemaining(s, name) ==
    /\ vault[s] # None
    /\ get_lease(vault[s][1].data.lease_manager, name) # None
    /\ ret' = Call("time_remaining", s, name,
                   Ok(time_remaining(get_lease(vault[s][1].data.lease_manager, name)[1], now)))
    /\ UNCHANGED <<now, identityFile, vaultFile, vault, stored, expiry, hist, box>>

\* leases that are built and asked whether they are expired and how long they last
NextRemaining ==
    \/ \E s \in SeqSessions, n \in ValidNames, d \in LeaseDurations : AddLease(s, n, d)
    \/ \E s \in SeqSessions, n \in ValidNames : IsExpired(s, n)
    \/ \E s \in SeqSessions, n \in ValidNames : TimeRemaining(s, n)
    \/ Tick

SpecRemaining == InitLease /\ [][NextRemaining]_vars

\* C31: for every lease and every instant now, is_expired() is true if and only
\* if time_remaining() is absent, also at the instant now = expires_at; when
\* time_remaining() is present it is expires_at - now and positive
C31_RemainingAgreesWithExpired ==
    (ret.op = "time_remaining") =>
        LET lease == ManagerLeases(ret.s)[ret.name]
            left  == ret.res.val
        IN  /\ is_expired(lease, now) <=> (left = None)
            /\ left # None => (left[1] = expiry[ret.name] - now /\ left[1] > 0)

====
